---------------------------- MODULE Spec2Model ----------------------------
(***************************************************************************)
(* GoldSrc master server: the UDP dispatch loop (server.ts), the           *)
(* connection tracker with its rate limiter and audit log                  *)
(* (connection-tracker.service.ts), the server list cache                  *)
(* (server-list.service.ts) and the wire codec (goldsrc.ts).               *)
(*                                                                         *)
(* A text is a sequence of one-character strings; in the audit file a      *)
(* field value, a comma and a line feed are one symbol each.  A JSON value *)
(* that is expected to be an address is a record [str, text]: str is FALSE *)
(* for a value that is not a string (a number, null, a missing field).     *)
(***************************************************************************)
EXTENDS Integers, Sequences, FiniteSets, TLC

\* ------------------------------------------------------------------ bounds

\* datagrams received over one behaviour
MaxDatagrams == 4
\* datagrams received while the list cache is refreshed
MaxCacheDatagrams == 2
\* longest list of a source when mergeServers is applied on its own
MaxLen == 2
\* longest address list when createResponsePacket is applied on its own
MaxAddresses == 3
\* process starts over one behaviour (1 = no restart)
MaxRuns == 2
\* update() calls awaiting their sources at the same time
MaxUpdates == 2
\* appendFile calls in flight at the same time
MaxWrites == 2
\* shutdown() calls over one run (signals, socket error)
MaxShutdowns == 2

\* --------------------------------------------------- configuration (env.ts)

\* RATE_LIMIT_WINDOW_MS, counted in turns of the timer phase
RATE_LIMIT_WINDOW_MS == 2
MAX_TRACKED_CONNECTIONS == 2
Priorities == {"only", "high", "low"}

\* ------------------------------------------------------------------- texts

Range(s) == {s[i] : i \in 1..Len(s)}

Str(t) == [str |-> TRUE, text |-> t]
\* an address field that holds no string
NotAString == [str |-> FALSE, text |-> <<>>]

Digits == <<"0", "1", "2", "3", "4", "5", "6", "7", "8", "9">>
IsDigit(c) == \E i \in 1..10 : Digits[i] = c
DigitVal(c) == (CHOOSE i \in 1..10 : Digits[i] = c) - 1

\* String.prototype.lastIndexOf, 1-based; 0 when absent
lastIndexOf(t, c) ==
    IF \E i \in 1..Len(t) : t[i] = c
    THEN CHOOSE i \in 1..Len(t) : t[i] = c /\ \A j \in (i+1)..Len(t) : t[j] # c
    ELSE 0

\* leading white space of a text
RECURSIVE TrimStart(_)
TrimStart(t) ==
    IF t # <<>> /\ Head(t) = " " THEN TrimStart(Tail(t)) ELSE t

\* the value of the longest prefix of decimal digits, acc the value so far
RECURSIVE DigitRun(_, _)
DigitRun(t, acc) ==
    IF t # <<>> /\ IsDigit(Head(t))
    THEN DigitRun(Tail(t), 10 * acc + DigitVal(Head(t)))
    ELSE acc

\* parseInt(text, 10): white space, an optional sign, then the digits up to the
\* first character that is none; NaN when there is no digit
parseInt(t) ==
    LET s == TrimStart(t)
        neg == s # <<>> /\ Head(s) = "-"
        d == IF s # <<>> /\ Head(s) \in {"-", "+"} THEN Tail(s) ELSE s
    IN IF d = <<>> \/ ~IsDigit(Head(d))
       THEN [nan |-> TRUE, val |-> 0]
       ELSE [nan |-> FALSE,
             val |-> IF neg THEN 0 - DigitRun(d, 0) ELSE DigitRun(d, 0)]

\* Array.prototype.join
RECURSIVE join(_, _)
join(parts, sep) ==
    IF parts = <<>> THEN <<>>
    ELSE IF Len(parts) = 1 THEN parts[1]
    ELSE parts[1] \o <<sep>> \o join(Tail(parts), sep)

\* String.prototype.split on one character
RECURSIVE split(_, _)
split(t, c) ==
    IF \E i \in 1..Len(t) : t[i] = c
    THEN LET i == CHOOSE k \in 1..Len(t) : t[k] = c /\ \A j \in 1..(k-1) : t[j] # c
         IN <<SubSeq(t, 1, i - 1)>> \o split(SubSeq(t, i + 1, Len(t)), c)
    ELSE <<t>>

\* -------------------------------------------------- wire codec (goldsrc.ts)

REQUEST_BYTE == 49
RESPONSE_HEADER == <<255, 255, 255, 255, 102, 10>>
RESPONSE_TERMINATOR == <<0, 0, 0, 0, 0, 0>>
EMPTY_RESPONSE == RESPONSE_HEADER \o RESPONSE_TERMINATOR

\* serverToBuffer of a string: [ok, buf]; ok = FALSE stands for null
serverToBuffer(t) ==
    LET colonIndex == lastIndexOf(t, ":")
        ip == SubSeq(t, 1, colonIndex - 1)
        port == parseInt(SubSeq(t, colonIndex + 1, Len(t)))
        octets == split(ip, ".")
        oct(i) == parseInt(octets[i])
        null == [ok |-> FALSE, buf |-> <<>>]
    IN IF colonIndex = 0 THEN null
       ELSE IF port.nan \/ port.val < 1 \/ port.val > 65535 THEN null
       ELSE IF Len(octets) # 4 THEN null
       ELSE IF \E i \in 1..4 : oct(i).nan \/ oct(i).val < 0 \/ oct(i).val > 255
            THEN null
       ELSE [ok |-> TRUE,
             buf |-> <<oct(1).val, oct(2).val, oct(3).val, oct(4).val,
                       (port.val \div 256) % 256, port.val % 256>>]

\* "1.2.3.4:27015"
AddrA == Str(<<"1", ".", "2", ".", "3", ".", "4", ":", "2", "7", "0", "1", "5">>)
\* "10.0.0.5:80"
AddrB == Str(<<"1", "0", ".", "0", ".", "0", ".", "5", ":", "8", "0">>)
\* "9.9.9.9:65535"
AddrC == Str(<<"9", ".", "9", ".", "9", ".", "9", ":", "6", "5", "5", "3", "5">>)
\* "nope": a string that is no address
AddrJunk == Str(<<"n", "o", "p", "e">>)
\* "10.0.0.5:80x": a port that starts with digits
AddrLenient == Str(<<"1", "0", ".", "0", ".", "0", ".", "5", ":", "8", "0", "x">>)

\* serverToBuffer of the texts above, computed once
KnownTexts == {AddrA.text, AddrB.text, AddrC.text, AddrJunk.text, AddrLenient.text}
KnownBuffer == [t \in KnownTexts |-> serverToBuffer(t)]
BufferOf(t) == IF t \in KnownTexts THEN KnownBuffer[t] ELSE serverToBuffer(t)

\* the records of the valid addresses, in order
RECURSIVE serverBuffers(_)
serverBuffers(addresses) ==
    IF addresses = <<>> THEN <<>>
    ELSE LET b == BufferOf(Head(addresses).text)
         IN (IF b.ok THEN b.buf ELSE <<>>) \o serverBuffers(Tail(addresses))

\* createResponsePacket: [threw, buf].  serverToBuffer calls a string method
\* on each entry, which throws a TypeError on an entry that is no string.
createResponsePacket(addresses) ==
    IF addresses = <<>> THEN [threw |-> FALSE, buf |-> EMPTY_RESPONSE]
    ELSE IF \E i \in 1..Len(addresses) : ~addresses[i].str
         THEN [threw |-> TRUE, buf |-> <<>>]
    ELSE IF serverBuffers(addresses) = <<>>
         THEN [threw |-> FALSE, buf |-> EMPTY_RESPONSE]
    ELSE [threw |-> FALSE,
          buf |-> RESPONSE_HEADER \o serverBuffers(addresses) \o RESPONSE_TERMINATOR]

\* isValidRequest that looks for the request byte anywhere
isValidRequest_Anywhere(msg) == REQUEST_BYTE \in Range(msg)

isValidRequest(msg) == Len(msg) > 0 /\ msg[1] = REQUEST_BYTE


\* ------------------------------------------------------------------ inputs

IPs == {"ip1", "ip2"}
Ports == {27005, 27006}
\* datagrams: empty, the request byte alone, the request byte and more, and
\* datagrams that start with another byte
Datagrams == {<<>>, <<49>>, <<49, 255, 0>>, <<50>>, <<0, 49>>}

\* ---------------------------------------------------------------- variables

VARIABLES
    phase,          \* "boot" (main() not yet through), "running", "exited"
    run,            \* how many times the process has been started
    clock,          \* Date.now(): one tick per datagram received
    mode,           \* env.LOCAL_SERVERS_PRIORITY
    MAX_CONNECTIONS_PER_IP,     \* env.MAX_CONNECTIONS_PER_IP
    connections,    \* Map key -> timestamp, as the sequence of its entries
    rateLimitMap,   \* Map ip -> count, as a function on the ips it holds
    ENABLE_CONNECTION_LOGGING,
    CONNECTIONS_API_URL,    \* TRUE: a URL is configured
    timers,         \* pending rate-limit setTimeout callbacks, in start order
    pendingLogs,    \* queued audit lines
    pushes,         \* sendToApi calls awaiting their fetch
    flushTimer,     \* the flush interval is set
    initialized,
    writes,         \* appendFile calls awaiting completion
    logFile,        \* the content of env.LOG_FILE; <<>> while there is no file
    shutdowns,      \* shutdown() calls made in this run
    serverList,
    responsePacket,
    lastUpdate,
    updateTimer,    \* the update interval is set
    updates,        \* update() calls awaiting their two sources
    updateRet,      \* what the last update() to return returned
    requestCount,
    sends,          \* server.send calls awaiting their callback
    wire,           \* the responses put on the wire, newest last
    recent,         \* history: admissions of the trailing window, with age
    insertedAt,     \* history: key -> clock of its latest insertion
    emitted,        \* history: audit lines queued in this run
    handled,        \* history: the datagram handled last and what became of it
    started,        \* history: the sources of the update() started last
    input,          \* the arguments of a function applied on its own
    output          \* its result

trackerVars == <<connections, rateLimitMap, timers, pendingLogs, pushes,
                 flushTimer, initialized, writes, logFile, shutdowns>>
listVars == <<serverList, responsePacket, lastUpdate, updateTimer, updates,
              updateRet>>
dispatchVars == <<requestCount, sends, wire>>
historyVars == <<recent, insertedAt, emitted, handled, started>>
envVars == <<mode, MAX_CONNECTIONS_PER_IP, ENABLE_CONNECTION_LOGGING,
            CONNECTIONS_API_URL>>
callVars == <<input, output>>
vars == <<phase, run, clock, envVars, trackerVars, listVars, dispatchVars,
          historyVars, callVars>>

\* ------------------------------------------ Map as a function on its keys

EmptyMap == [x \in {} |-> 0]
MapSet(m, k, v) == [x \in DOMAIN m \cup {k} |-> IF x = k THEN v ELSE m[x]]
MapDelete(m, k) == [x \in DOMAIN m \ {k} |-> m[x]]

\* ------------------------------ connection tracker: the methods, as functions

\* `${clientIP}:${clientPort}`
Key(clientIP, clientPort) == <<clientIP, ":", ToString(clientPort)>>

Keys(conns) == {conns[i].key : i \in 1..Len(conns)}
\* Map.delete of the first key
DeleteFirst(conns) == Tail(conns)

\* the header row of the audit file
LOG_HEADER ==
    <<"timestamp", ",", "client_ip", ",", "client_port", ",", "date", ",", "time",
      ",", "year">>

\* the audit line `${timestamp},${clientIP},${clientPort},${date},${time},${year}`;
\* date, time and year repeat the timestamp
LogLine(now, clientIP, clientPort) ==
    <<ToString(now), ",", clientIP, ",", ToString(clientPort), ",", "date", ",",
      "time", ",", "year">>

\* logConnection: the line is queued and, with a URL configured, the entry is
\* handed to sendToApi, whose promise nobody awaits: [pendingLogs, pushes]
logConnection(logs, reqs, clientIP, clientPort, now) ==
    [pendingLogs |-> Append(logs, LogLine(now, clientIP, clientPort)),
     pushes |-> IF CONNECTIONS_API_URL
                THEN Append(reqs, [clientIP |-> clientIP, clientPort |-> clientPort,
                                   timestamp |-> now])
                ELSE reqs]

\* track that moves an endpoint it sees again to the young end (LRU by access)
track_Refresh(conns, logs, reqs, clientIP, clientPort, now) ==
    LET key == Key(clientIP, clientPort)
        at == CHOOSE i \in 1..Len(conns) : conns[i].key = key
        added == Append(conns, [key |-> key, ts |-> now])
        kept == IF Len(added) > MAX_TRACKED_CONNECTIONS
                THEN DeleteFirst(added) ELSE added
        logged == IF ENABLE_CONNECTION_LOGGING
                  THEN logConnection(logs, reqs, clientIP, clientPort, now)
                  ELSE [pendingLogs |-> logs, pushes |-> reqs]
    IN IF key \in Keys(conns)
       THEN [ret |-> FALSE,
             connections |-> Append(SubSeq(conns, 1, at - 1)
                                    \o SubSeq(conns, at + 1, Len(conns)), conns[at]),
             pendingLogs |-> logs, pushes |-> reqs]
       ELSE [ret |-> TRUE, connections |-> kept,
             pendingLogs |-> logged.pendingLogs, pushes |-> logged.pushes]

\* track that stamps an endpoint it sees again with the time of the call
track_Touch(conns, logs, reqs, clientIP, clientPort, now) ==
    LET key == Key(clientIP, clientPort)
        added == Append(conns, [key |-> key, ts |-> now])
        kept == IF Len(added) > MAX_TRACKED_CONNECTIONS
                THEN DeleteFirst(added) ELSE added
        logged == IF ENABLE_CONNECTION_LOGGING
                  THEN logConnection(logs, reqs, clientIP, clientPort, now)
                  ELSE [pendingLogs |-> logs, pushes |-> reqs]
    IN IF key \in Keys(conns)
       THEN [ret |-> FALSE,
             connections |-> [i \in 1..Len(conns) |->
                                 IF conns[i].key = key
                                 THEN [key |-> key, ts |-> now] ELSE conns[i]],
             pendingLogs |-> logs, pushes |-> reqs]
       ELSE [ret |-> TRUE, connections |-> kept,
             pendingLogs |-> logged.pendingLogs, pushes |-> logged.pushes]

\* track that logs every endpoint it is called with, seen before or not
track_LogRepeat(conns, logs, reqs, clientIP, clientPort, now) ==
    LET key == Key(clientIP, clientPort)
        added == Append(conns, [key |-> key, ts |-> now])
        kept == IF Len(added) > MAX_TRACKED_CONNECTIONS
                THEN DeleteFirst(added) ELSE added
        logged == IF ENABLE_CONNECTION_LOGGING
                  THEN logConnection(logs, reqs, clientIP, clientPort, now)
                  ELSE [pendingLogs |-> logs, pushes |-> reqs]
    IN IF key \in Keys(conns)
       THEN [ret |-> FALSE, connections |-> conns,
             pendingLogs |-> logged.pendingLogs, pushes |-> logged.pushes]
       ELSE [ret |-> TRUE, connections |-> kept,
             pendingLogs |-> logged.pendingLogs, pushes |-> logged.pushes]

\* track: [ret, connections, pendingLogs, pushes]
track(conns, logs, reqs, clientIP, clientPort, now) ==
    LET key == Key(clientIP, clientPort)
        added == Append(conns, [key |-> key, ts |-> now])
        kept == IF Len(added) > MAX_TRACKED_CONNECTIONS
                THEN DeleteFirst(added) ELSE added
        logged == IF ENABLE_CONNECTION_LOGGING
                  THEN logConnection(logs, reqs, clientIP, clientPort, now)
                  ELSE [pendingLogs |-> logs, pushes |-> reqs]
    IN IF key \in Keys(conns)
       THEN [ret |-> FALSE, connections |-> conns, pendingLogs |-> logs,
             pushes |-> reqs]
       ELSE [ret |-> TRUE, connections |-> kept,
             pendingLogs |-> logged.pendingLogs, pushes |-> logged.pushes]

\* rateLimitMap.get(clientIP) || dflt
CountOr(map, clientIP, dflt) ==
    IF clientIP \in DOMAIN map /\ map[clientIP] # 0 THEN map[clientIP] ELSE dflt

\* checkRateLimit that counts the request before it looks at the limit
checkRateLimit_CountFirst(map, tms, clientIP) ==
    LET count == CountOr(map, clientIP, 0)
    IN [ret |-> count < MAX_CONNECTIONS_PER_IP,
        rateLimitMap |-> MapSet(map, clientIP, count + 1),
        timers |-> IF count < MAX_CONNECTIONS_PER_IP
                   THEN Append(tms, [ip |-> clientIP, left |-> RATE_LIMIT_WINDOW_MS])
                   ELSE tms]

\* checkRateLimit: [ret, rateLimitMap, timers]
checkRateLimit(map, tms, clientIP) ==
    LET count == CountOr(map, clientIP, 0)
    IN IF count >= MAX_CONNECTIONS_PER_IP
       THEN [ret |-> FALSE, rateLimitMap |-> map, timers |-> tms]
       ELSE [ret |-> TRUE,
             rateLimitMap |-> MapSet(map, clientIP, count + 1),
             timers |-> Append(tms, [ip |-> clientIP,
                                     left |-> RATE_LIMIT_WINDOW_MS])]

\* a cleanup that resets the counter of the ip (a fixed window)
rateLimitCleanup_Reset(map, clientIP) == MapDelete(map, clientIP)

\* a cleanup that leaves the last count in place
rateLimitCleanup_KeepOne(map, clientIP) ==
    LET current == CountOr(map, clientIP, 1)
    IN IF current <= 1 THEN map ELSE MapSet(map, clientIP, current - 1)

\* a cleanup that decrements and never deletes
rateLimitCleanup_NoDelete(map, clientIP) ==
    MapSet(map, clientIP, CountOr(map, clientIP, 1) - 1)

\* the setTimeout callback of checkRateLimit
rateLimitCleanup(map, clientIP) ==
    LET current == CountOr(map, clientIP, 1)
    IN IF current <= 1 THEN MapDelete(map, clientIP)
       ELSE MapSet(map, clientIP, current - 1)

\* the callbacks of the timers that are due, run in start order
RECURSIVE RunDue(_, _)
RunDue(map, tms) ==
    IF tms = <<>> THEN map
    ELSE RunDue(IF Head(tms).left <= 1 THEN rateLimitCleanup(map, Head(tms).ip)
                ELSE map,
                Tail(tms))

\* the timers that stay pending after a turn of the timer phase
RECURSIVE StillPending(_)
StillPending(tms) ==
    IF tms = <<>> THEN <<>>
    ELSE (IF Head(tms).left <= 1 THEN <<>>
          ELSE <<[ip |-> Head(tms).ip, left |-> Head(tms).left - 1]>>)
         \o StillPending(Tail(tms))

\* the for loop of loadExistingConnections: a line that is empty is skipped,
\* a line with a client ip and a client port sets its key with timestamp 0; a
\* key set again keeps its place
RECURSIVE loadLines(_, _)
loadLines(conns, lines) ==
    IF lines = <<>> THEN conns
    ELSE LET fields == split(Head(lines), ",")
             key == fields[2] \o <<":">> \o fields[3]
         IN loadLines(
                IF \/ Head(lines) = <<>>
                   \/ Len(fields) < 3
                   \/ fields[2] = <<>> \/ fields[3] = <<>>
                   \/ key \in Keys(conns)
                THEN conns
                ELSE Append(conns, [key |-> key, ts |-> 0]),
                Tail(lines))

\* loadExistingConnections that reads the header as a row
loadExistingConnections_WithHeader(conns, content) ==
    loadLines(conns, split(content, "\n"))

\* loadExistingConnections of a file that exists: content.split('\n').slice(1)
loadExistingConnections(conns, content) ==
    loadLines(conns, Tail(split(content, "\n")))

\* appendFile(env.LOG_FILE, toFlush.join('\n') + '\n')
appendFile(content, toFlush) == content \o join(toFlush, "\n") \o <<"\n">>

\* flushLogs up to its await: [batch, pendingLogs], splice(0) takes every line
flushLogsTake(logs) == [batch |-> logs, pendingLogs |-> <<>>]
\* a catch that drops the batch
flushLogsRequeue_Drop(logs, toFlush) == logs

\* flushLogs, the catch: unshift(...toFlush)
flushLogsRequeue(logs, toFlush) == toFlush \o logs

\* ------------------------------------ server list: the methods, as functions

\* What the API call came to: ok = FALSE is a timeout, a network error, a
\* status that is not 2xx or a body that does not parse.
ApiFailed == [ok |-> FALSE, servers |-> <<>>]
ApiReturned(servers) == [ok |-> TRUE, servers |-> servers]

\* fetchFromApi, given what the call came to
fetchFromApi(api) == IF api.ok THEN api.servers ELSE <<>>

\* What reading the local file came to: ok = FALSE is a file that is absent,
\* unreadable or no JSON.  An entry is [address, has, priority]; has = FALSE
\* is an entry without a priority.
LocalFailed == [ok |-> FALSE, enabled |-> FALSE, servers |-> <<>>]
LocalRead(enabled, servers) == [ok |-> TRUE, enabled |-> enabled, servers |-> servers]
Entry(address, priority) == [address |-> address, has |-> TRUE, priority |-> priority]
EntryNoPriority(address) == [address |-> address, has |-> FALSE, priority |-> 0]

MISSING_PRIORITY == 999
\* a.priority || 999
PriorityOr(e) == IF e.has /\ e.priority # 0 THEN e.priority ELSE MISSING_PRIORITY

\* Array.prototype.sort with the comparator of loadLocalServers: stable
RECURSIVE InsertSorted(_, _)
InsertSorted(sorted, e) ==
    IF sorted = <<>> THEN <<e>>
    ELSE IF PriorityOr(e) - PriorityOr(Head(sorted)) < 0
         THEN <<e>> \o sorted
         ELSE <<Head(sorted)>> \o InsertSorted(Tail(sorted), e)

RECURSIVE SortByPriority(_)
SortByPriority(servers) ==
    IF servers = <<>> THEN <<>>
    ELSE InsertSorted(SortByPriority(SubSeq(servers, 1, Len(servers) - 1)),
                      servers[Len(servers)])

\* loadLocalServers, given what reading the file came to
loadLocalServers(local) ==
    IF ~local.ok \/ ~local.enabled THEN <<>>
    ELSE LET sorted == SortByPriority(local.servers)
         IN [i \in 1..Len(sorted) |-> sorted[i].address]

\* addUnique of mergeServers: result is the list so far
RECURSIVE addUnique(_, _)
addUnique(result, servers) ==
    IF servers = <<>> THEN result
    ELSE addUnique(IF Head(servers) \in Range(result) THEN result
                   ELSE Append(result, Head(servers)),
                   Tail(servers))

\* mergeServers that removes duplicates within each source only
mergeServers_PerSource(apiServers, localServers, priority) ==
    CASE priority = "only" -> addUnique(<<>>, localServers)
      [] priority = "high" -> addUnique(<<>>, localServers) \o addUnique(<<>>, apiServers)
      [] priority = "low" -> addUnique(<<>>, apiServers) \o addUnique(<<>>, localServers)

mergeServers(apiServers, localServers, priority) ==
    CASE priority = "only" -> addUnique(<<>>, localServers)
      [] priority = "high" -> addUnique(addUnique(<<>>, localServers), apiServers)
      [] priority = "low" -> addUnique(addUnique(<<>>, apiServers), localServers)

\* update() from the point where both sources have answered:
\* [serverList, responsePacket, lastUpdate, ret, assigned].  The list is
\* assigned before createResponsePacket runs; when that throws, the catch
\* returns the length of the list as it then is.
update(api, local, priority, packet, last, now) ==
    LET merged == mergeServers(fetchFromApi(api), loadLocalServers(local), priority)
        built == createResponsePacket(merged)
    IN IF built.threw
       THEN [serverList |-> merged, responsePacket |-> packet,
             lastUpdate |-> last, ret |-> Len(merged), assigned |-> FALSE]
       ELSE [serverList |-> merged, responsePacket |-> built.buf,
             lastUpdate |-> now, ret |-> Len(merged), assigned |-> TRUE]

\* getResponsePacket that encodes the list on every call
getResponsePacket_Rebuild(packet) == createResponsePacket(serverList).buf

getResponsePacket(packet) == packet

\* -------------------------------------------------------------- the process

RemoveAt(s, i) == SubSeq(s, 1, i - 1) \o SubSeq(s, i + 1, Len(s))

\* what the two sources of one refresh cycle give: both down, the API alone
\* (a good list, a list with an entry whose address is not a string), both up
RefreshOutcomes ==
    {<<ApiFailed, LocalFailed>>,
     <<ApiReturned(<<AddrA, AddrB>>), LocalFailed>>,
     <<ApiReturned(<<AddrC, NotAString>>), LocalFailed>>,
     <<ApiReturned(<<AddrA, AddrB>>),
       LocalRead(TRUE, <<Entry(AddrB, 2), Entry(AddrC, 1)>>)>>}

NoCall == [fn |-> "none", args |-> <<>>]
NoResult == [done |-> FALSE, value |-> <<>>]
NoDatagram == [valid |-> FALSE, ip |-> "", port |-> 0, fate |-> "none", isNew |-> FALSE]

\* the module-level state of a process before main() runs
Fresh ==
    /\ connections = <<>>
    /\ rateLimitMap = EmptyMap
    /\ timers = <<>>
    /\ pendingLogs = <<>>
    /\ pushes = <<>>
    /\ flushTimer = FALSE
    /\ initialized = FALSE
    /\ writes = <<>>
    /\ shutdowns = 0
    /\ serverList = <<>>
    /\ responsePacket = EMPTY_RESPONSE
    /\ lastUpdate = 0
    /\ updateTimer = FALSE
    /\ updates = <<>>
    /\ updateRet = 0
    /\ requestCount = 0
    /\ sends = <<>>
    /\ wire = <<>>
    /\ recent = <<>>
    /\ insertedAt = EmptyMap
    /\ emitted = <<>>
    /\ handled = NoDatagram
    /\ started = <<>>

\* a first start with no audit file, under any configuration of the model
Installed ==
    /\ phase = "boot"
    /\ run = 1
    /\ clock = 0
    /\ mode \in Priorities
    /\ MAX_CONNECTIONS_PER_IP \in {1, 2}
    /\ ENABLE_CONNECTION_LOGGING \in BOOLEAN
    /\ CONNECTIONS_API_URL \in BOOLEAN
    /\ logFile = <<>>
    /\ Fresh

\* the defaults of env.ts: audit logging on, no URL to push the entries to
DefaultLogging == ENABLE_CONNECTION_LOGGING /\ ~CONNECTIONS_API_URL

Init ==
    /\ Installed
    /\ input = NoCall
    /\ output = NoResult

\* main(): connectionTrackerService.initialize(), serverListService.initialize()
\* with its first update(), then bind.  readOk = FALSE is a readFile that throws.
Main(readOk, api, local) ==
    LET loaded == IF logFile # <<>> /\ readOk
                  THEN loadExistingConnections(<<>>, logFile) ELSE <<>>
        u == update(api, local, mode, responsePacket, lastUpdate, clock)
    IN /\ phase = "boot"
       /\ phase' = "running"
       /\ connections' = loaded
       /\ logFile' = IF logFile = <<>> THEN LOG_HEADER \o <<"\n">> ELSE logFile
       /\ started' = <<[api |-> api, local |-> local]>>
       /\ flushTimer' = TRUE
       /\ initialized' = TRUE
       /\ serverList' = u.serverList
       /\ responsePacket' = u.responsePacket
       /\ lastUpdate' = u.lastUpdate
       /\ updateRet' = u.ret
       /\ updateTimer' = TRUE
       /\ insertedAt' = [k \in Keys(loaded) |->
                           (CHOOSE i \in 1..Len(loaded) : loaded[i].key = k)
                           - Len(loaded) - 1]
       /\ UNCHANGED <<run, clock, envVars, rateLimitMap, timers, pendingLogs, pushes,
                      writes, shutdowns, updates, dispatchVars, recent, emitted,
                      handled, callVars>>

\* server.on('message')
Message(msg, clientIP, clientPort) ==
    LET now == clock + 1
        rl == checkRateLimit(rateLimitMap, timers, clientIP)
        tr == track(connections, pendingLogs, pushes, clientIP, clientPort, now)
        response == getResponsePacket(responsePacket)
    IN /\ phase = "running"
       /\ clock < MaxDatagrams
       /\ clock' = now
       /\ IF ~isValidRequest(msg)
          THEN /\ handled' = [valid |-> FALSE, ip |-> clientIP, port |-> clientPort,
                              fate |-> "invalid", isNew |-> FALSE]
               /\ UNCHANGED <<trackerVars, dispatchVars, recent, insertedAt, emitted>>
          ELSE /\ rateLimitMap' = rl.rateLimitMap
               /\ timers' = rl.timers
               /\ IF ~rl.ret
                  THEN /\ handled' = [valid |-> TRUE, ip |-> clientIP,
                                      port |-> clientPort, fate |-> "limited",
                                      isNew |-> FALSE]
                       /\ UNCHANGED <<connections, pendingLogs, pushes,
                                      dispatchVars, recent, insertedAt, emitted>>
                  ELSE /\ connections' = tr.connections
                       /\ pendingLogs' = tr.pendingLogs
                       /\ pushes' = tr.pushes
                       /\ sends' = Append(sends,
                                          [ip |-> clientIP, port |-> clientPort,
                                           response |-> response, isNew |-> tr.ret,
                                           current |-> responsePacket])
                       /\ recent' = Append(recent, [ip |-> clientIP, age |-> 0])
                       /\ insertedAt' =
                              IF tr.ret
                              THEN MapSet(insertedAt, Key(clientIP, clientPort), now)
                              ELSE insertedAt
                       /\ emitted' = emitted \o SubSeq(tr.pendingLogs,
                                                       Len(pendingLogs) + 1,
                                                       Len(tr.pendingLogs))
                       /\ handled' = [valid |-> TRUE, ip |-> clientIP,
                                      port |-> clientPort, fate |-> "answered",
                                      isNew |-> tr.ret]
                       /\ UNCHANGED <<requestCount, wire>>
               /\ UNCHANGED <<flushTimer, initialized, writes, logFile, shutdowns>>
       /\ UNCHANGED <<phase, run, envVars, listVars, started, callVars>>

\* a callback that counts the send whether it failed or not
SendCallback_CountAll(i, ok) ==
    /\ phase = "running"
    /\ i \in 1..Len(sends)
    /\ sends' = RemoveAt(sends, i)
    /\ requestCount' = requestCount + 1
    /\ IF ok THEN wire' = <<sends[i]>> ELSE UNCHANGED wire
    /\ UNCHANGED <<phase, run, clock, envVars, trackerVars, listVars, historyVars,
                   callVars>>

\* the callback of server.send; ok = FALSE is a send error
SendCallback(i, ok) ==
    /\ phase = "running"
    /\ i \in 1..Len(sends)
    /\ sends' = RemoveAt(sends, i)
    /\ IF ok
       THEN /\ requestCount' = requestCount + 1
            /\ wire' = <<sends[i]>>
       ELSE UNCHANGED <<requestCount, wire>>
    /\ UNCHANGED <<phase, run, clock, envVars, trackerVars, listVars, historyVars,
                   callVars>>

\* one turn of the event loop's timer phase: time moves on by one unit and
\* the rate-limit timeouts that have come due run their callbacks
TimersPhase ==
    /\ phase = "running"
    /\ timers # <<>> \/ recent # <<>>
    /\ rateLimitMap' = RunDue(rateLimitMap, timers)
    /\ timers' = StillPending(timers)
    /\ recent' = LET aged == [i \in 1..Len(recent) |->
                                [ip |-> recent[i].ip, age |-> recent[i].age + 1]]
                     first == IF \E i \in 1..Len(aged) : aged[i].age < RATE_LIMIT_WINDOW_MS
                              THEN CHOOSE i \in 1..Len(aged) :
                                       /\ aged[i].age < RATE_LIMIT_WINDOW_MS
                                       /\ \A j \in 1..(i-1) :
                                              aged[j].age >= RATE_LIMIT_WINDOW_MS
                              ELSE Len(aged) + 1
                 IN SubSeq(aged, first, Len(aged))
    /\ UNCHANGED <<phase, run, clock, envVars, connections, pendingLogs, pushes,
                   flushTimer, initialized, writes, logFile, shutdowns, listVars,
                   dispatchVars, insertedAt, emitted, handled, started, callVars>>

\* the setInterval callback of startFlushTimer: flushLogs up to its await (a
\* call that finds the queue empty returns at once and changes nothing)
FlushTimer ==
    LET f == flushLogsTake(pendingLogs)
    IN /\ phase = "running"
       /\ flushTimer
       /\ pendingLogs # <<>>
       /\ Len(writes) < MaxWrites
       /\ writes' = Append(writes, [batch |-> f.batch, owner |-> "timer"])
       /\ pendingLogs' = f.pendingLogs
       /\ UNCHANGED <<phase, run, clock, envVars, connections, rateLimitMap, timers,
                      pushes, flushTimer, initialized, logFile, shutdowns, listVars,
                      dispatchVars, historyVars, callVars>>

\* shutdown(): serverListService.stop(), connectionTrackerService.stop() up to
\* the await of its flushLogs.  With an empty queue nothing is awaited but
\* promises that are already settled and the close callback, so the call runs
\* on to process.exit.
Shutdown ==
    LET f == flushLogsTake(pendingLogs)
    IN /\ phase = "running"
       /\ shutdowns < MaxShutdowns
       /\ Len(writes) < MaxWrites
       /\ shutdowns' = shutdowns + 1
       /\ updateTimer' = FALSE
       /\ flushTimer' = FALSE
       /\ IF pendingLogs = <<>>
          THEN /\ phase' = "exited"
               /\ UNCHANGED <<writes, pendingLogs>>
          ELSE /\ writes' = Append(writes, [batch |-> f.batch, owner |-> "stop"])
               /\ pendingLogs' = f.pendingLogs
               /\ UNCHANGED phase
       /\ UNCHANGED <<run, clock, envVars, connections, rateLimitMap, timers,
                      pushes, initialized, logFile, serverList, responsePacket, lastUpdate,
                      updates, updateRet, dispatchVars, historyVars, callVars>>

\* appendFile settles: flushLogs from its await on.  ok = FALSE is a write
\* that failed and wrote nothing.  The call made by stop() is followed by
\* server.close and process.exit.
WriteSettles(i, ok) ==
    /\ phase = "running"
    /\ i \in 1..Len(writes)
    /\ writes' = RemoveAt(writes, i)
    /\ IF ok
       THEN /\ logFile' = appendFile(logFile, writes[i].batch)
            /\ UNCHANGED pendingLogs
       ELSE /\ pendingLogs' = flushLogsRequeue(pendingLogs, writes[i].batch)
            /\ UNCHANGED logFile
    /\ phase' = IF writes[i].owner = "stop" THEN "exited" ELSE phase
    /\ UNCHANGED <<run, clock, envVars, connections, rateLimitMap, timers, pushes,
                   flushTimer, initialized, shutdowns, listVars, dispatchVars, historyVars,
                   callVars>>

\* a write that was in flight at process.exit and still reaches the file
WriteAfterExit(i) ==
    /\ phase = "exited"
    /\ i \in 1..Len(writes)
    /\ writes' = RemoveAt(writes, i)
    /\ logFile' = appendFile(logFile, writes[i].batch)
    /\ UNCHANGED <<phase, run, clock, envVars, connections, rateLimitMap, timers,
                   pendingLogs, pushes, flushTimer, initialized, shutdowns, listVars,
                   dispatchVars, historyVars, callVars>>

\* the fetch of a sendToApi call settles: sendToApi from its await on.  ok =
\* FALSE is a fetch that rejects (or is aborted after five seconds), which the
\* catch of sendToApi swallows.
SendToApiSettles(i, ok) ==
    /\ phase = "running"
    /\ i \in 1..Len(pushes)
    /\ pushes' = RemoveAt(pushes, i)
    /\ UNCHANGED <<phase, run, clock, envVars, connections, rateLimitMap, timers,
                   pendingLogs, flushTimer, initialized, writes, logFile, shutdowns,
                   listVars, dispatchVars, historyVars, callVars>>

\* the process is started again: the file is all that is left of the last run
Restart ==
    /\ phase = "exited"
    /\ run < MaxRuns
    /\ phase' = "boot"
    /\ run' = run + 1
    /\ connections' = <<>>
    /\ rateLimitMap' = EmptyMap
    /\ timers' = <<>>
    /\ pendingLogs' = <<>>
    /\ pushes' = <<>>
    /\ flushTimer' = FALSE
    /\ initialized' = FALSE
    /\ writes' = <<>>
    /\ shutdowns' = 0
    /\ serverList' = <<>>
    /\ responsePacket' = EMPTY_RESPONSE
    /\ lastUpdate' = 0
    /\ updateTimer' = FALSE
    /\ updates' = <<>>
    /\ updateRet' = 0
    /\ requestCount' = 0
    /\ sends' = <<>>
    /\ wire' = <<>>
    /\ recent' = <<>>
    /\ insertedAt' = EmptyMap
    /\ emitted' = <<>>
    /\ handled' = NoDatagram
    /\ started' = <<>>
    /\ UNCHANGED <<clock, envVars, logFile, callVars>>

\* the setInterval callback of startPeriodicUpdates: update() up to its
\* await, with what the two sources will answer
UpdateTimer(api, local) ==
    /\ phase = "running"
    /\ updateTimer
    /\ Len(updates) < MaxUpdates
    /\ updates' = Append(updates, [api |-> api, local |-> local])
    /\ started' = <<[api |-> api, local |-> local]>>
    /\ UNCHANGED <<phase, run, clock, envVars, trackerVars, serverList, responsePacket,
                   lastUpdate, updateTimer, updateRet, dispatchVars, recent,
                   insertedAt, emitted, handled, callVars>>

\* both sources of an update() have answered: update() from its await on
UpdateSettles(i) ==
    /\ phase = "running"
    /\ i \in 1..Len(updates)
    /\ LET u == update(updates[i].api, updates[i].local, mode, responsePacket,
                       lastUpdate, clock)
       IN /\ serverList' = u.serverList
          /\ responsePacket' = u.responsePacket
          /\ lastUpdate' = u.lastUpdate
          /\ updateRet' = u.ret
    /\ updates' = RemoveAt(updates, i)
    /\ UNCHANGED <<phase, run, clock, envVars, trackerVars, updateTimer, dispatchVars,
                   historyVars, callVars>>

\* ------------------------------------------------------- specifications

InitTracker == Init /\ mode = "high" /\ MAX_CONNECTIONS_PER_IP = 2 /\ DefaultLogging

InitRate == Init /\ mode = "high" /\ DefaultLogging

\* Rate limiting: datagrams, valid or not, and the turns of the timer phase.
NextRate ==
    \/ Main(TRUE, ApiReturned(<<AddrA, AddrB>>), LocalFailed)
    \/ \E msg \in Datagrams, ip \in IPs : Message(msg, ip, 27005)
    \/ TimersPhase

SpecRate == InitRate /\ [][NextRate]_vars

\* the event loop runs the timer phase again and again: a timeout that is
\* pending comes due and its callback runs
SpecRateLive == SpecRate /\ WF_vars(TimersPhase)

\* Connection tracking: endpoints tracked and evicted, their audit lines
\* written, and the process started again on the file it left.
NextTrack ==
    \/ \E readOk \in BOOLEAN : Main(readOk, ApiReturned(<<AddrA, AddrB>>), LocalFailed)
    \/ \E ip \in IPs, port \in Ports : Message(<<REQUEST_BYTE>>, ip, port)
    \/ FlushTimer
    \/ \E i \in 1..MaxWrites : WriteSettles(i, TRUE)
    \/ Shutdown
    \/ Restart

SpecTrack == InitTracker /\ [][NextTrack]_vars

\* The audit log: lines queued, flushed by the timer and by stop(), writes
\* that fail, and shutdown.
NextAudit ==
    \/ Main(TRUE, ApiReturned(<<AddrA, AddrB>>), LocalFailed)
    \/ \E ip \in IPs, port \in Ports : Message(<<REQUEST_BYTE>>, ip, port)
    \/ FlushTimer
    \/ \E i \in 1..MaxWrites, ok \in BOOLEAN : WriteSettles(i, ok)
    \/ Shutdown
    \/ \E i \in 1..MaxWrites : WriteAfterExit(i)

SpecAudit == InitTracker /\ [][NextAudit]_vars

\* The list cache: refresh cycles that overlap, and datagrams answered from
\* the cache while they run.
NextCache ==
    \/ \E o \in RefreshOutcomes : Main(TRUE, o[1], o[2])
    \/ \E o \in RefreshOutcomes : UpdateTimer(o[1], o[2])
    \/ \E i \in 1..MaxUpdates : UpdateSettles(i)
    \/ clock < MaxCacheDatagrams /\ Message(<<REQUEST_BYTE>>, "ip1", 27005)
    \/ \E i \in 1..MaxCacheDatagrams, ok \in BOOLEAN : SendCallback(i, ok)

InitCache == Init /\ MAX_CONNECTIONS_PER_IP = 2 /\ DefaultLogging

SpecCache == InitCache /\ [][NextCache]_vars

\* Audit emission under every setting of the two logging switches: datagrams
\* of every kind from two clients, and the fetches of sendToApi settling.
InitEmit == Init /\ mode = "high" /\ MAX_CONNECTIONS_PER_IP = 2

NextEmit ==
    \/ Main(TRUE, ApiReturned(<<AddrA, AddrB>>), LocalFailed)
    \/ \E msg \in Datagrams, ip \in IPs, port \in Ports : Message(msg, ip, port)
    \/ \E i \in 1..MaxDatagrams, ok \in BOOLEAN : SendToApiSettles(i, ok)

SpecEmit == InitEmit /\ [][NextEmit]_vars

\* Dispatch: datagrams of every kind from two clients, one admission per
\* client, sends that succeed or fail in any order, and a refresh of the list
\* while they are in flight.
InitSend == Init /\ mode = "high" /\ MAX_CONNECTIONS_PER_IP = 1 /\ DefaultLogging

NextSend ==
    \/ Main(TRUE, ApiReturned(<<AddrA>>), LocalFailed)
    \/ \E msg \in Datagrams, ip \in IPs : Message(msg, ip, 27005)
    \/ \E i \in 1..MaxDatagrams, ok \in BOOLEAN : SendCallback(i, ok)
    \/ UpdateTimer(ApiReturned(<<AddrA, AddrB>>), LocalFailed)
    \/ \E i \in 1..MaxUpdates : UpdateSettles(i)

SpecSend == InitSend /\ [][NextSend]_vars

\* mergeServers applied on its own to every pair of lists within the bound
ListsOf(S) == UNION {[1..n -> S] : n \in 0..MaxLen}

InitMerge ==
    /\ Installed /\ mode = "high" /\ MAX_CONNECTIONS_PER_IP = 2 /\ DefaultLogging
    /\ \E api \in ListsOf({AddrA, AddrB, AddrC}),
          local \in ListsOf({AddrA, AddrB, AddrC}), priority \in Priorities :
          input = [fn |-> "mergeServers", args |-> <<api, local, priority>>]
    /\ output = NoResult

ApplyMerge ==
    /\ input.fn = "mergeServers"
    /\ ~output.done
    /\ output' = [done |-> TRUE,
                  value |-> mergeServers(input.args[1], input.args[2], input.args[3])]
    /\ UNCHANGED <<phase, run, clock, envVars, trackerVars, listVars, dispatchVars,
                   historyVars, input>>

SpecMerge == InitMerge /\ [][ApplyMerge]_vars

\* The wire codec applied on its own: createResponsePacket to every list of
\* strings within the bound, serverToBuffer to the texts of EncodeTexts,
\* isValidRequest to the datagrams.
AddressLists ==
    UNION {[1..n -> {AddrA, AddrB, AddrC, AddrJunk, AddrLenient}] : n \in 0..MaxAddresses}

\* first octets: "0", "255", "256", "x", "", "-1", "7a", " 7"
OctetTokens ==
    {<<"0">>, <<"2", "5", "5">>, <<"2", "5", "6">>, <<"x">>, <<>>, <<"-", "1">>,
     <<"7", "a">>, <<" ", "7">>}
\* the octets after the first: ".2.3.4", ".2.3", ".2.3.4.5"
OctetTails ==
    {<<".", "2", ".", "3", ".", "4">>, <<".", "2", ".", "3">>,
     <<".", "2", ".", "3", ".", "4", ".", "5">>}
\* ports: "1", "65535", "0", "65536", "80x", "x", "", "+80", "-5"
PortTokens ==
    {<<"1">>, <<"6", "5", "5", "3", "5">>, <<"0">>, <<"6", "5", "5", "3", "6">>,
     <<"8", "0", "x">>, <<"x">>, <<>>, <<"+", "8", "0">>, <<"-", "5">>}
EncodeTexts ==
    {o \o t \o <<":">> \o p : o \in OctetTokens, t \in OctetTails, p \in PortTokens}
    \cup {o \o t : o \in OctetTokens, t \in OctetTails}

CodecCalls ==
    {[fn |-> "createResponsePacket", args |-> <<l>>] : l \in AddressLists}
    \cup {[fn |-> "serverToBuffer", args |-> <<Str(t)>>] : t \in EncodeTexts}
    \cup {[fn |-> "isValidRequest", args |-> <<d>>] : d \in Datagrams}

InitCodec ==
    /\ Installed /\ mode = "high" /\ MAX_CONNECTIONS_PER_IP = 2 /\ DefaultLogging
    /\ input \in CodecCalls
    /\ output = NoResult

Returns(value) ==
    /\ ~output.done
    /\ output' = [done |-> TRUE, value |-> value]
    /\ UNCHANGED <<phase, run, clock, envVars, trackerVars, listVars, dispatchVars,
                   historyVars, input>>

ApplyCreateResponsePacket ==
    input.fn = "createResponsePacket" /\ Returns(createResponsePacket(input.args[1]))

ApplyServerToBuffer ==
    input.fn = "serverToBuffer" /\ Returns(serverToBuffer(input.args[1].text))

ApplyIsValidRequest ==
    input.fn = "isValidRequest" /\ Returns(isValidRequest(input.args[1]))

NextCodec ==
    \/ ApplyCreateResponsePacket
    \/ ApplyServerToBuffer
    \/ ApplyIsValidRequest

SpecCodec == InitCodec /\ [][NextCodec]_vars

\* loadLocalServers applied on its own to what servers.json may hold:
\* priorities 0, 1, 1000 and none
LocalEntries ==
    {Entry(a, p) : a \in {AddrA, AddrB}, p \in {0, 1, 1000}}
    \cup {EntryNoPriority(a) : a \in {AddrA, AddrB}}

LocalFiles ==
    {LocalFailed}
    \cup {LocalRead(enabled, servers) : enabled \in BOOLEAN, servers \in ListsOf(LocalEntries)}

InitLocal ==
    /\ Installed /\ mode = "high" /\ MAX_CONNECTIONS_PER_IP = 2 /\ DefaultLogging
    /\ \E local \in LocalFiles : input = [fn |-> "loadLocalServers", args |-> <<local>>]
    /\ output = NoResult

ApplyLoadLocalServers ==
    input.fn = "loadLocalServers" /\ Returns(loadLocalServers(input.args[1]))

SpecLocal == InitLocal /\ [][ApplyLoadLocalServers]_vars

\* ----------------------------------------------------------------- claims

\* the counter the rate limiter holds for an ip: 0 when it holds none
Counter(ip) == IF ip \in DOMAIN rateLimitMap THEN rateLimitMap[ip] ELSE 0

\* a step that handles a datagram
Handles == clock' # clock

\* C1: a valid datagram from an ip whose counter is at or above
\* MAX_CONNECTIONS_PER_IP changes nothing: the counters, the pending timers,
\* the tracked connections, the audit queue, and no response is sent.
C1_DeniedIsNoOp ==
    [][(Handles /\ handled'.valid
        /\ Counter(handled'.ip) >= MAX_CONNECTIONS_PER_IP)
       => UNCHANGED <<rateLimitMap, timers, connections, pendingLogs, writes,
                      logFile, sends, wire, requestCount>>]_vars

\* a datagram was denied by the rate limiter
C1_Witness ==
    /\ handled.fate = "limited"
    /\ Counter(handled.ip) >= MAX_CONNECTIONS_PER_IP
    /\ Len(timers) = Counter("ip1") + Counter("ip2")

\* the admissions of an ip whose window has not elapsed
InWindow(ip) == Cardinality({i \in 1..Len(recent) : recent[i].ip = ip})
\* the responses that were sent to an ip and have not completed
SentTo(ip) == Cardinality({i \in 1..Len(sends) : sends[i].ip = ip})

\* C2: a valid datagram is admitted (answered) exactly when fewer than
\* MAX_CONNECTIONS_PER_IP datagrams of the same ip were admitted within the
\* trailing RATE_LIMIT_WINDOW_MS; the admissions of other ips do not count.
C2_RollingWindow ==
    [][(Handles /\ handled'.valid)
       => ((Len(sends') = Len(sends) + 1)
           <=> (InWindow(handled'.ip) < MAX_CONNECTIONS_PER_IP))]_vars

\* with a cap of 1, a second datagram of an ip is answered once the window of
\* the first has elapsed, after one in between was denied or another ip's
C2_Witness ==
    /\ MAX_CONNECTIONS_PER_IP = 1
    /\ handled.fate = "answered"
    /\ SentTo(handled.ip) = 2
    /\ InWindow(handled.ip) = 1
    /\ clock >= 3

\* C3 as claimed: the tracked connections never number more than
\* MAX_TRACKED_CONNECTIONS, also right after initialize() has loaded the file.
C3_Claimed == Len(connections) <= MAX_TRACKED_CONNECTIONS

\* the endpoint of the datagram handled last
HandledKey == Key(handled.ip, handled.port)
\* the tracked key that was inserted first, the new key k counted in
Oldest(keys, at) == CHOOSE k \in keys : \A j \in keys : at[k] <= at[j]

DegradedCycle(i) ==
    UpdateSettles(i) /\ (~updates[i].api.ok \/ ~updates[i].local.ok)

\* a non-empty list is published together with its buffer
PublishedNonEmpty ==
    /\ serverList # <<>>
    /\ responsePacket # EMPTY_RESPONSE
    /\ createResponsePacket(serverList) = [threw |-> FALSE, buf |-> responsePacket]

\* C5 as claimed: a degraded refresh cycle that follows the publication of a
\* non-empty list does not clear the list or the buffer.
C5_Claimed ==
    [][\A i \in 1..MaxUpdates :
          (DegradedCycle(i) /\ PublishedNonEmpty)
          => (serverList' # <<>> /\ responsePacket' # EMPTY_RESPONSE)]_vars

\* the build of the response buffer throws in the cycle that settles
BuildThrows(i) ==
    createResponsePacket(mergeServers(fetchFromApi(updates[i].api),
                                      loadLocalServers(updates[i].local),
                                      mode)).threw

\* C6 as claimed: a refresh whose build throws leaves the list and the buffer
\* as they were and returns the length of that unchanged list.
C6_Claimed ==
    [][\A i \in 1..MaxUpdates :
          (UpdateSettles(i) /\ BuildThrows(i))
          => /\ serverList' = serverList
             /\ responsePacket' = responsePacket
             /\ updateRet' = Len(serverList)]_vars

\* a whole response: the header, a number of 6-byte records, the terminator
Complete(b) ==
    /\ Len(b) >= 12
    /\ (Len(b) - 12) % 6 = 0
    /\ SubSeq(b, 1, 6) = RESPONSE_HEADER
    /\ SubSeq(b, Len(b) - 5, Len(b)) = RESPONSE_TERMINATOR

\* C7: the buffer in force is always a whole response, and every response
\* handed to the socket, while its send is pending and when it is on the
\* wire, is the whole buffer that was in force when its datagram was handled.
C7_SentIsPublished ==
    /\ Complete(responsePacket)
    /\ \A i \in 1..Len(sends) :
          Complete(sends[i].response) /\ sends[i].response = sends[i].current
    /\ \A i \in 1..Len(wire) :
          Complete(wire[i].response) /\ wire[i].response = wire[i].current

\* a response went out while a refresh was outstanding, and a refresh has
\* replaced the buffer since its datagram was handled
C7_Witness ==
    /\ wire # <<>> /\ wire[1].response # responsePacket
    /\ updates # <<>>
    /\ sends # <<>> /\ sends[1].response # wire[1].response

\* the lines of the batches that are being written
RECURSIVE InFlight(_)
InFlight(ws) == IF ws = <<>> THEN <<>> ELSE Head(ws).batch \o InFlight(Tail(ws))

\* the rows of the file: its lines below the header, the empty line after the
\* last line feed left out
FileRows == SelectSeq(Tail(split(logFile, "\n")), LAMBDA line : line # <<>>)

\* every line that is queued, being written or in the file
AllLines == pendingLogs \o InFlight(writes) \o FileRows

\* C8: every audit line emitted is in exactly one of the queue, a batch being
\* written and the file, once; a batch whose write fails is back in the queue.
C8_NoLossNoDup ==
    /\ Len(AllLines) = Len(emitted)
    /\ Range(AllLines) = Range(emitted)

\* a batch whose write failed is queued again (it was emitted before a line
\* that is in the file) while another write is in flight
C8_Witness ==
    /\ writes # <<>>
    /\ \E i, j \in 1..Len(emitted) :
          /\ i < j
          /\ emitted[i] \in Range(pendingLogs)
          /\ emitted[j] \in Range(FileRows)

\* C9 as claimed: at process exit every audit line emitted is in the file,
\* none is left in the queue or in a batch whose write has not finished.
C9_Claimed ==
    phase = "exited"
    => /\ pendingLogs = <<>>
       /\ writes = <<>>
       /\ Range(emitted) \subseteq Range(FileRows)

\* the lists of a merge in the order the mode gives them
Concatenated(api, local, priority) ==
    CASE priority = "only" -> local
      [] priority = "high" -> local \o api
      [] priority = "low" -> api \o local

FirstAt(list, x) == CHOOSE i \in 1..Len(list) :
                        list[i] = x /\ \A j \in 1..(i - 1) : list[j] # x

\* C10: the merged list holds the strings of the local list ('only'), of the
\* local then the API list ('high'), of the API then the local list ('low'),
\* each once, in the order of their first occurrence.
C10_Merge ==
    output.done
    => LET api == input.args[1]
           local == input.args[2]
           cat == Concatenated(api, local, input.args[3])
           out == output.value
       IN /\ Range(out) = Range(cat)
          /\ \A i, j \in 1..Len(out) :
                i < j => FirstAt(cat, out[i]) < FirstAt(cat, out[j])
          /\ (local = <<AddrA, AddrB>> /\ api = <<AddrB, AddrC>>)
             => out = CASE input.args[3] = "high" -> <<AddrA, AddrB, AddrC>>
                        [] input.args[3] = "low" -> <<AddrB, AddrC, AddrA>>
                        [] input.args[3] = "only" -> <<AddrA, AddrB>>

\* low: local = [A, B], api = [B, C] gives [B, C, A]
C10_Witness ==
    /\ output.done
    /\ input.args = <<(<<AddrB, AddrC>>), (<<AddrA, AddrB>>), "low">>
    /\ output.value = <<AddrB, AddrC, AddrA>>

\* a text of decimal digits and nothing else, and the number it writes
IsNumeric(t) == t # <<>> /\ \A i \in 1..Len(t) : IsDigit(t[i])
RECURSIVE NumberOf(_)
NumberOf(t) ==
    IF t = <<>> THEN 0
    ELSE 10 * NumberOf(SubSeq(t, 1, Len(t) - 1)) + DigitVal(t[Len(t)])

\* the parts of a text around its last colon
OctetsOf(t) == split(SubSeq(t, 1, lastIndexOf(t, ":") - 1), ".")
PortOf(t) == SubSeq(t, lastIndexOf(t, ":") + 1, Len(t))

\* a.b.c.d:port, four numeric octets in [0,255], a numeric port in [1,65535]
WellFormed(t) ==
    /\ lastIndexOf(t, ":") # 0
    /\ Len(OctetsOf(t)) = 4
    /\ \A i \in 1..4 : IsNumeric(OctetsOf(t)[i]) /\ NumberOf(OctetsOf(t)[i]) <= 255
    /\ IsNumeric(PortOf(t)) /\ NumberOf(PortOf(t)) \in 1..65535

\* the record of a well-formed text
RecordOf(t) ==
    <<NumberOf(OctetsOf(t)[1]), NumberOf(OctetsOf(t)[2]), NumberOf(OctetsOf(t)[3]),
      NumberOf(OctetsOf(t)[4]), NumberOf(PortOf(t)) \div 256,
      NumberOf(PortOf(t)) % 256>>

RECURSIVE Records(_)
Records(list) ==
    IF list = <<>> THEN <<>>
    ELSE RecordOf(Head(list).text) \o Records(Tail(list))

\* C11 as claimed: createResponsePacket of a list of strings is the header,
\* one 6-byte record for each valid address in input order, invalid entries
\* skipped, and six zero bytes; its length is 12 + 6 * (valid entries), and
\* it is the 12-byte empty response when no entry is valid.
C11_Claimed ==
    (output.done /\ input.fn = "createResponsePacket")
    => LET valid == SelectSeq(input.args[1], LAMBDA a : WellFormed(a.text))
           out == output.value
       IN /\ ~out.threw
          /\ out.buf = RESPONSE_HEADER \o Records(valid) \o RESPONSE_TERMINATOR
          /\ Len(out.buf) = 12 + 6 * Len(valid)
          /\ valid = <<>> => out.buf = <<255, 255, 255, 255, 102, 10, 0, 0, 0, 0, 0, 0>>

\* C13 as claimed: serverToBuffer yields a record exactly for the well-formed
\* texts, the record holds the four octets and the port big-endian, and every
\* other text yields null.
C13_Claimed ==
    (output.done /\ input.fn = "serverToBuffer")
    => LET t == input.args[1].text
       IN /\ output.value.ok <=> WellFormed(t)
          /\ WellFormed(t) => output.value.buf = RecordOf(t)

\* C12: a datagram is taken as a request iff it is non-empty and its first
\* byte is 0x31, whatever follows; any other datagram changes no counter, no
\* timer, no tracked connection, no audit line and no send.
C12_RequestMarker ==
    [][\A msg \in Datagrams, ip \in IPs, port \in Ports :
          Message(msg, ip, port)
          => /\ (handled'.fate # "invalid") <=> (msg # <<>> /\ Head(msg) = 49)
             /\ handled'.fate = "invalid"
                => UNCHANGED <<rateLimitMap, timers, connections, pendingLogs,
                               writes, logFile, sends, wire, requestCount>>]_vars

\* a datagram that is no request was dropped while the limiter and the
\* tracker held state, after two requests were answered
C12_Witness ==
    /\ handled.fate = "invalid"
    /\ rateLimitMap # EmptyMap /\ timers # <<>> /\ connections # <<>>
    /\ Len(sends) >= 2

\* a may stand before b in a list sorted ascending by priority with the
\* entries that have none last
MayPrecede(a, b) == ~b.has \/ (a.has /\ a.priority <= b.priority)

Orderings(n) == {f \in [1..n -> 1..n] : \A i, j \in 1..n : f[i] = f[j] => i = j}

\* C14 as claimed: the addresses of an enabled, readable local list come out
\* sorted ascending by priority, every entry without a priority after every
\* entry with one, whatever the priorities are (0 and more than 999 included).
C14_Claimed ==
    (output.done /\ input.fn = "loadLocalServers"
        /\ input.args[1].ok /\ input.args[1].enabled)
    => LET servers == input.args[1].servers
       IN \E f \in Orderings(Len(servers)) :
             /\ output.value = [i \in 1..Len(servers) |-> servers[f[i]].address]
             /\ \A i, j \in 1..Len(servers) :
                   i < j => MayPrecede(servers[f[i]], servers[f[j]])

\* the endpoints that have a row in the audit file
FileKeys == {<<FileRows[i][3], ":", FileRows[i][5]>> : i \in 1..Len(FileRows)}

\* main() runs through; readOk = FALSE is a readFile that throws
StartsUp(readOk) == Main(readOk, ApiReturned(<<AddrA, AddrB>>), LocalFailed)

\* the datagram of an endpoint with a row in the file is the first one
\* handled since the start
FirstFromPersisted(ip, port) ==
    /\ handled.fate = "none"
    /\ Message(<<REQUEST_BYTE>>, ip, port)
    /\ Key(ip, port) \in FileKeys

\* answered as a repeat: track returns false and queues no audit line
AnsweredAsRepeat ==
    /\ handled'.fate = "answered" /\ ~handled'.isNew
    /\ pendingLogs' = pendingLogs /\ emitted' = emitted

PendingTimers(ip) == Cardinality({i \in 1..Len(timers) : timers[i].ip = ip})

\* C16: for every ip the stored counter is the number of its admitted
\* requests whose decrement timer has not fired; a stored counter is between
\* 1 and MAX_CONNECTIONS_PER_IP, and an ip without a pending timer has no
\* entry.
C16_CounterIsPendingTimers ==
    /\ DOMAIN rateLimitMap \subseteq IPs
    /\ \A ip \in IPs :
          /\ Counter(ip) = PendingTimers(ip)
          /\ ip \in DOMAIN rateLimitMap
             => rateLimitMap[ip] \in 1..MAX_CONNECTIONS_PER_IP
          /\ PendingTimers(ip) = 0 => ip \notin DOMAIN rateLimitMap

\* three requests of ip1 were admitted, the timers of two have fired and one
\* is pending; ip2 was admitted once and its entry is deleted again
C16_Witness ==
    /\ MAX_CONNECTIONS_PER_IP = 2
    /\ SentTo("ip1") = 3 /\ Counter("ip1") = 1 /\ PendingTimers("ip1") = 1
    /\ SentTo("ip2") = 1 /\ "ip2" \notin DOMAIN rateLimitMap

\* C17 as claimed: in every state in which a datagram can be handled the
\* response buffer is createResponsePacket of the current list.
C17_Claimed ==
    phase = "running"
    => createResponsePacket(serverList) = [threw |-> FALSE, buf |-> responsePacket]

\* the place of a line among the lines emitted
EmittedAt(line) == CHOOSE k \in 1..Len(emitted) : emitted[k] = line

InEmissionOrder(lines) ==
    \A i, j \in 1..Len(lines) : i < j => EmittedAt(lines[i]) < EmittedAt(lines[j])

\* C18 as claimed: the lines of the pending queue are always in the order in
\* which they were emitted, a batch whose write failed ahead of the lines
\* queued after it.
C18_Claimed == InEmissionOrder(pendingLogs)

\* what the update() started last merges, and the buffer it builds
StartedLast ==
    mergeServers(fetchFromApi(started[1].api), loadLocalServers(started[1].local), mode)

\* C19 as claimed: once no refresh is outstanding, the published list and
\* buffer are those of the refresh that was started last (one whose build
\* throws publishes nothing and is left aside).
C19_Claimed ==
    (phase = "running" /\ updates = <<>> /\ ~createResponsePacket(StartedLast).threw)
    => /\ serverList = StartedLast
       /\ responsePacket = createResponsePacket(StartedLast).buf

\* a request of the ip is admitted
Admits(ip) == Handles /\ handled'.ip = ip /\ handled'.fate = "answered"

\* C20: when from some point on no request of an ip is admitted, its counter
\* entry is eventually deleted for good, so the map is eventually empty when
\* that holds for every ip; and a request of an ip that has no entry is
\* admitted.
C20_Drains ==
    /\ \A ip \in IPs :
          <>[][~Admits(ip)]_vars => <>[](ip \notin DOMAIN rateLimitMap)
    /\ (\A ip \in IPs : <>[][~Admits(ip)]_vars) => <>[](rateLimitMap = EmptyMap)
    /\ [][(Handles /\ handled'.valid /\ handled'.ip \notin DOMAIN rateLimitMap)
          => handled'.fate = "answered"]_vars

\* with one request per window, ip1 was admitted, its entry was deleted, it
\* was admitted again and the map is empty again
C20_Witness ==
    /\ MAX_CONNECTIONS_PER_IP = 1
    /\ SentTo("ip1") = 2
    /\ rateLimitMap = EmptyMap /\ timers = <<>>

C22_AuditPerNewConnection ==
    [][/\ Handles =>
            IF /\ handled'.fate = "answered"
               /\ HandledKey' \notin Keys(connections)
               /\ ENABLE_CONNECTION_LOGGING
            THEN /\ Len(pendingLogs') = Len(pendingLogs) + 1
                 /\ SubSeq(pendingLogs', 1, Len(pendingLogs)) = pendingLogs
                 /\ pendingLogs'[Len(pendingLogs')][3] = handled'.ip
                 /\ pendingLogs'[Len(pendingLogs')][5] = ToString(handled'.port)
            ELSE pendingLogs' = pendingLogs
       /\ (Handles /\ handled'.fate = "answered") =>
            /\ handled'.isNew = (HandledKey' \notin Keys(connections))
            /\ Len(sends') = Len(sends) + 1
       /\ (pushes' # pushes /\ ~Handles) =>
            /\ \E i \in 1..Len(pushes), ok \in BOOLEAN : SendToApiSettles(i, ok)
            /\ pendingLogs' = pendingLogs
            /\ UNCHANGED <<connections, dispatchVars, handled>>]_vars

\* with a URL configured one client's two endpoints were logged, one of the two
\* pushes has settled, and the client's third datagram was dropped by the rate
\* limiter
C22_Witness ==
    /\ ENABLE_CONNECTION_LOGGING /\ CONNECTIONS_API_URL
    /\ handled.fate = "limited"
    /\ Len(pendingLogs) = 2 /\ Len(sends) = 2
    /\ Len(pushes) = 1

\* a flush started by stop() that has not settled
StopFlushing(ws) == \E i \in 1..Len(ws) : ws[i].owner = "stop"

\* C23 as claimed: a call of shutdown leaves both intervals cleared; the process
\* exits only when no flush started by stop() is still in flight; once a
\* shutdown has begun the only flush that starts is the one of stop().
C23_Claimed ==
    [][/\ (shutdowns' = shutdowns + 1) => (~updateTimer' /\ ~flushTimer')
       /\ (phase = "running" /\ phase' = "exited") => ~StopFlushing(writes')
       /\ (shutdowns > 0 /\ phase = "running" /\ Len(writes') > Len(writes))
            => writes'[Len(writes')].owner = "stop"]_vars

\* C24: requestCount never goes down and moves only by one, in the step in
\* which a send completes; it moves in every callback without error and in no
\* callback with an error, and in no step that drops a datagram; a callback
\* with an error starts no send, leaves the other sends in flight, the last
\* delivery, the list and its buffer as they are; the count never exceeds the
\* sends that have completed.
C24_CountsSuccessfulSends ==
    [][/\ requestCount' >= requestCount
       /\ requestCount' # requestCount =>
            /\ requestCount' = requestCount + 1
            /\ \E i \in 1..Len(sends) :
                  sends' = RemoveAt(sends, i) /\ wire' = <<sends[i]>>
       /\ \A i \in 1..Len(sends) :
            /\ SendCallback(i, TRUE) => requestCount' = requestCount + 1
            /\ SendCallback(i, FALSE) =>
                  /\ requestCount' = requestCount
                  /\ sends' = RemoveAt(sends, i)
                  /\ UNCHANGED <<wire, serverList, responsePacket, lastUpdate,
                                 updates, connections, rateLimitMap, timers>>
       /\ (Handles /\ handled'.fate \in {"invalid", "limited"}) =>
            UNCHANGED <<requestCount, sends, wire>>
       /\ requestCount' + Len(sends') <= Len(recent')]_vars

\* two clients were answered, one send was delivered and one failed, and a
\* third datagram was dropped by the rate limiter
C24_Witness ==
    /\ Len(recent) = 2 /\ sends = <<>>
    /\ requestCount = 1
    /\ handled.fate = "limited"
=============================================================================
